---- MODULE Spec2Model ----
(***************************************************************************)
(* Model of filebuttons/kv.py: the import-time pipeline                    *)
(*   walk_project -> compute_heights -> make_columns                       *)
(* the pure text functions filename_ok and wrap, and the running App:      *)
(* a click on a file button, run_program and the child process.            *)
(*                                                                         *)
(* A Python str is a sequence of one-character strings, a pathlib.Path is  *)
(* the sequence of its components (the current directory "." is <<>>).     *)
(***************************************************************************)
EXTENDS Integers, Sequences, FiniteSets, TLC

VARIABLES
    SHORT_BUTTON,      \* kv.py:118
    TALL_BUTTON,       \* kv.py:119
    SPACING,           \* kv.py:121
    TEXT_WRAP_WIDTH,   \* kv.py:117
    window_height,     \* kv.py:277
    folders,           \* myconfig["filebuttons.folders"]: sequence of [key, globs]
    fs,                \* the file system below the current directory
    pc,                \* position of the import-time code
    key_index,         \* walk_project: index of the next key of the for loop
    emitted,           \* per key handled by walk_project, the Cells it yielded
    unsized_cells,     \* kv.py:275, in the order yielded
    sized_cells,       \* kv.py:276, in the order yielded
    next_cell,         \* make_columns: index of the Cell next(sized_cells) returns
    cell_column,       \* make_columns local
    column_capacity,   \* make_columns local
    columns,           \* kv.py:278, the columns yielded so far
    text,              \* argument of a direct call of wrap / filename_ok
    result,            \* what that call returned
    num_columns,       \* kv.py:279; -1 while the name is not bound
    program,           \* myconfig["filebuttons"]["program"]; None: no such key
    executables,       \* the program names shutil.which finds on the search path
    ui,                \* what the UI thread is doing
    clicked,           \* the filename of every call of run_program, in order
    processes,         \* every child process spawned, in order
    previous_scan      \* the file Cells the scan yielded before files were deleted

vars == <<SHORT_BUTTON, TALL_BUTTON, SPACING, TEXT_WRAP_WIDTH, window_height,
          folders, fs, pc, key_index, emitted, unsized_cells, sized_cells,
          next_cell, cell_column, column_capacity, columns, text, result,
          num_columns, program, executables, ui, clicked, processes,
          previous_scan>>

config_vars == <<SHORT_BUTTON, TALL_BUTTON, SPACING, TEXT_WRAP_WIDTH,
                 window_height, folders, fs>>

scan_vars == <<key_index, emitted, unsized_cells>>

pack_vars == <<next_cell, cell_column, column_capacity, columns>>

text_vars == <<text, result>>

launch_vars == <<program, executables, ui, clicked, processes>>

app_vars == <<num_columns, launch_vars, previous_scan>>

(***************************************************************************)
(* Bounds of the model.                                                    *)
(***************************************************************************)
\* longest string handed directly to wrap / filename_ok
MaxLen == 4

\* longest sequence of sized Cells handed directly to make_columns
MaxCells == 4

(***************************************************************************)
(* Strings.                                                                *)
(***************************************************************************)
NL == "\n"

\* Code point of a character: Python compares and sorts str by code point.
Ord(c) ==
    CASE c = NL  -> 10
      [] c = "&" -> 38
      [] c = "*" -> 42
      [] c = "." -> 46
      [] c = "/" -> 47
      [] c = ";" -> 59
      [] c = "A" -> 65
      [] c = "D" -> 68
      [] c = "E" -> 69
      [] c = "M" -> 77
      [] c = "R" -> 82
      [] c = "_" -> 95
      [] c = "a" -> 97
      [] c = "b" -> 98
      [] c = "c" -> 99
      [] c = "d" -> 100
      [] c = "e" -> 101
      [] c = "h" -> 104
      [] c = "m" -> 109
      [] c = "o" -> 111
      [] c = "r" -> 114
      [] c = "s" -> 115
      [] c = "t" -> 116
      [] c = "x" -> 120
      [] c = "|" -> 124

\* a < b for two Python str
RECURSIVE StrLess(_, _)
StrLess(a, b) ==
    IF b = <<>> THEN FALSE
    ELSE IF a = <<>> THEN TRUE
    ELSE IF Ord(Head(a)) # Ord(Head(b)) THEN Ord(Head(a)) < Ord(Head(b))
    ELSE StrLess(Tail(a), Tail(b))

\* Python: s in filename (substring test)
Contains(filename, s) ==
    \E i \in 1..(Len(filename) - Len(s) + 1) :
        SubSeq(filename, i, i + Len(s) - 1) = s

\* Python: text.startswith(prefix)
StartsWith(s, prefix) ==
    /\ Len(s) >= Len(prefix)
    /\ SubSeq(s, 1, Len(prefix)) = prefix

\* Python: text.count("\n")
RECURSIVE CountNL(_)
CountNL(s) ==
    IF s = <<>> THEN 0
    ELSE (IF Head(s) = NL THEN 1 ELSE 0) + CountNL(Tail(s))

\* All strings over alphabet of length at most n.
RECURSIVE StringsUpTo(_, _)
StringsUpTo(alphabet, n) ==
    IF n = 0 THEN {<<>>}
    ELSE LET shorter == StringsUpTo(alphabet, n - 1)
         IN  shorter \cup {Append(s, c) : s \in shorter, c \in alphabet}

(***************************************************************************)
(* filename_ok, kv.py:133-144                                              *)
(***************************************************************************)
disallowSingleAmpersand == << <<";">>, <<"&">>, <<"|", "|">>, <<NL>> >>

disallow == << <<";">>, <<"&", "&">>, <<"|", "|">>, <<NL>> >>

filename_ok_accepts_all(filename) == TRUE

filename_ok(filename) ==
    LET badfilename == \E k \in 1..Len(disallow) : Contains(filename, disallow[k])
    IN  IF badfilename THEN FALSE ELSE TRUE

(***************************************************************************)
(* wrap, kv.py:219-228                                                     *)
(***************************************************************************)
wrapEvenSplit(t) ==
    LET width == Len(t)
    IN  IF width > TEXT_WRAP_WIDTH
        THEN SubSeq(t, 1, width \div 2) \o <<NL>>
                 \o SubSeq(t, (width \div 2) + 1, width)
        ELSE t

wrap(t) ==
    LET width == Len(t)
    IN  IF width > TEXT_WRAP_WIDTH
        THEN LET index0 == width \div 2
                 index  == IF width % 2 = 1 THEN index0 + 1 ELSE index0
             IN  SubSeq(t, 1, index) \o <<NL>> \o SubSeq(t, index + 1, width)
        ELSE t

(***************************************************************************)
(* Cell, kv.py:124-130.  target = None for a label.  A Path target always  *)
(* has at least one component (the file name), so None is the empty one.   *)
(***************************************************************************)
None == <<>>

Cell(title, target, height) ==
    [title |-> title, target |-> target, height |-> height]

(***************************************************************************)
(* The file system and pathlib.  fs maps every existing path below the     *)
(* current directory to [kind, size]; the current directory <<>> always    *)
(* exists and is a directory.                                              *)
(***************************************************************************)
File(size) == [kind |-> "file", size |-> size]
Dir == [kind |-> "dir", size |-> 0]

\* Path(key): "." has no components
PathOf(key) == IF key = <<".">> THEN <<>> ELSE <<key>>

\* path.name
Name(path) == path[Len(path)]

\* path.as_posix() / str(path)
RECURSIVE as_posix(_)
as_posix(path) ==
    IF path = <<>> THEN <<".">>
    ELSE IF Len(path) = 1 THEN path[1]
    ELSE path[1] \o <<"/">> \o as_posix(Tail(path))

\* path.exists()
Exists(path) == path = <<>> \/ path \in DOMAIN fs

\* path.is_dir()
is_dir(path) == path = <<>> \/ (path \in DOMAIN fs /\ fs[path].kind = "dir")

\* path.stat().st_size
st_size(path) == fs[path].size

\* folder.iterdir(), as a set: the OS gives the entries in no fixed order
iterdir(folder) ==
    {p \in DOMAIN fs : Len(p) = Len(folder) + 1 /\ SubSeq(p, 1, Len(folder)) = folder}

\* list.sort(key=attrgetter("name")), kv.py:153 and kv.py:182
RECURSIVE SortByName(_)
SortByName(paths) ==
    IF paths = {} THEN <<>>
    ELSE LET first == CHOOSE p \in paths :
                          \A q \in paths : ~StrLess(Name(q), Name(p))
         IN  <<first>> \o SortByName(paths \ {first})

\* the same list left in the order of the set
RECURSIVE Unsorted(_)
Unsorted(paths) ==
    IF paths = {} THEN <<>>
    ELSE LET last == CHOOSE p \in paths :
                         \A q \in paths : ~StrLess(Name(p), Name(q))
         IN  <<last>> \o Unsorted(paths \ {last})

\* fnmatch of one path component: "*" matches any run of characters
RECURSIVE Match(_, _)
Match(pattern, name) ==
    IF pattern = <<>> THEN name = <<>>
    ELSE IF Head(pattern) = "*"
         THEN \/ Match(Tail(pattern), name)
              \/ name # <<>> /\ Match(pattern, Tail(name))
    ELSE /\ name # <<>>
         /\ Head(name) = Head(pattern)
         /\ Match(Tail(pattern), Tail(name))

\* Path(start_folder).glob(pattern) for a pattern of one component: every
\* entry of the folder whose name matches, files and directories alike
glob(start_folder, pattern) ==
    IF is_dir(start_folder)
    THEN {p \in iterdir(start_folder) : Match(pattern, Name(p))}
    ELSE {}

\* str.splitlines()
RECURSIVE SplitLines(_, _)
SplitLines(s, line) ==
    IF s = <<>> THEN (IF line = <<>> THEN <<>> ELSE <<line>>)
    ELSE IF Head(s) = NL THEN <<line>> \o SplitLines(Tail(s), <<>>)
    ELSE SplitLines(Tail(s), Append(line, Head(s)))

splitlines(s) == SplitLines(s, <<>>)

(***************************************************************************)
(* walk_one_folder, kv.py:147-170                                          *)
(***************************************************************************)
\* kv.py:156: exclude __pycache__ dirs
IsExcludedDirNever(name) == FALSE

IsExcludedDir(name) == StartsWith(name, <<"_", "_">>)

\* kv.py:160: skip empty files
IsEmptyFileNever(path) == FALSE

IsEmptyFile(path) == ~(st_size(path) > 0)

\* kv.py:154-166: the for loop over the sorted entries, from is_visited on
RECURSIVE FolderCells(_, _, _)
FolderCells(folder, files, is_visited) ==
    IF files = <<>> THEN <<>>
    ELSE LET path == Head(files)
         IN  IF is_dir(path) \/ IsEmptyFile(path)
             THEN FolderCells(folder, Tail(files), is_visited)
             ELSE (IF ~is_visited THEN <<Cell(as_posix(folder), None, 0)>> ELSE <<>>)
                  \o (IF filename_ok(Name(path))
                      THEN <<Cell(Name(path), path, 0)>> ELSE <<>>)
                  \o FolderCells(folder, Tail(files), TRUE)

IsWalkedDir(path) == is_dir(path) /\ ~IsExcludedDir(Name(path))

RECURSIVE walk_one_folder(_)
RECURSIVE WalkDirs(_)
\* kv.py:168-170
WalkDirs(dirs) ==
    IF dirs = <<>> THEN <<>>
    ELSE walk_one_folder(Head(dirs)) \o WalkDirs(Tail(dirs))

\* the Cells of the subfolders ahead of the folder's own
WalkOrderDirsFirst(own, below) == below \o own

\* kv.py:154-170: the loop over the folder's entries runs to its end
\* before the loop over dirs starts
WalkOrder(own, below) == own \o below

walk_one_folder(folder) ==
    LET files == SortByName(iterdir(folder))
        dirs == SelectSeq(files, IsWalkedDir)
    IN  WalkOrder(FolderCells(folder, files, FALSE), WalkDirs(dirs))

(***************************************************************************)
(* emit_from_globs, kv.py:173-184                                          *)
(***************************************************************************)
\* kv.py:176-181
unique_paths(start_folder, globs) ==
    {path \in UNION {glob(PathOf(start_folder), globs[g]) : g \in 1..Len(globs)} :
        filename_ok(Name(path))}

FileCellsOf(paths) == [i \in 1..Len(paths) |-> Cell(Name(paths[i]), paths[i], 0)]

emit_from_globs_no_label(start_folder, label, globs) ==
    FileCellsOf(SortByName(unique_paths(start_folder, globs)))

emit_from_globs_unsorted(start_folder, label, globs) ==
    <<Cell(label, None, 0)>>
        \o FileCellsOf(Unsorted(unique_paths(start_folder, globs)))

emit_from_globs(start_folder, label, globs) ==
    <<Cell(label, None, 0)>>
        \o FileCellsOf(SortByName(unique_paths(start_folder, globs)))

(***************************************************************************)
(* compute_heights, kv.py:231-244                                          *)
(***************************************************************************)
HeightOfLinesTallFromThree(num_lines) ==
    IF num_lines > 2 THEN TALL_BUTTON ELSE SHORT_BUTTON

\* kv.py:240-243
HeightOfLines(num_lines) ==
    IF num_lines > 1 THEN TALL_BUTTON ELSE SHORT_BUTTON

\* kv.py:235-244, for one cell
compute_height(cell) ==
    LET wrapped == IF cell.target = None THEN wrap(cell.title)
                   ELSE wrap(Name(cell.target))
        num_lines == CountNL(wrapped) + 1
    IN  Cell(wrapped, cell.target, HeightOfLines(num_lines))

compute_heights(cells) == [i \in 1..Len(cells) |-> compute_height(cells[i])]

(***************************************************************************)
(* make_columns, kv.py:247-272.  The generator is run to exhaustion by     *)
(* list(...) at kv.py:278; columns collects what it yields.                *)
(***************************************************************************)
minimum_height_three == 3 * (SHORT_BUTTON + SPACING)

minimum_height == 4 * (SHORT_BUTTON + SPACING)

\* kv.py:261: room?
HasRoomStrict(space_required, capacity) == space_required < capacity

HasRoom(space_required, capacity) == space_required <= capacity

\* kv.py:267-268: the column a Cell without room starts
NewColumnEmpty(cell) == <<>>

NewColumn(cell) == <<cell>>

\* kv.py:269: the room left in that column
NewColumnCapacityFull(space_required) == window_height

NewColumnCapacity(space_required) == window_height - space_required

\* kv.py:253-256: the assert and the capacity of the first column
MakeColumnsStart ==
    /\ pc = "make_columns"
    /\ IF window_height >= minimum_height
       THEN /\ pc' = "next"
            /\ cell_column' = <<>>
            /\ column_capacity' = window_height - minimum_height
            /\ UNCHANGED <<next_cell, columns>>
       ELSE /\ pc' = "AssertionError"
            /\ UNCHANGED pack_vars
    /\ UNCHANGED <<config_vars, scan_vars, sized_cells, text_vars, app_vars>>

\* kv.py:259-269: one turn of the while loop, for the Cell next() returns
MakeColumnsNext ==
    /\ pc = "next"
    /\ next_cell <= Len(sized_cells)
    /\ LET cell == sized_cells[next_cell]
           space_required == cell.height + SPACING
       IN  IF HasRoom(space_required, column_capacity)
           THEN /\ cell_column' = Append(cell_column, cell)
                /\ column_capacity' = column_capacity - space_required
                /\ UNCHANGED columns
           ELSE /\ columns' = Append(columns, cell_column)
                /\ cell_column' = NewColumn(cell)
                /\ column_capacity' = NewColumnCapacity(space_required)
    /\ next_cell' = next_cell + 1
    /\ UNCHANGED <<config_vars, scan_vars, sized_cells, text_vars, pc, app_vars>>

\* kv.py:271-272: the last column is yielded if it holds a Cell
ColumnsAtStopAlways(cols, col) == Append(cols, col)

ColumnsAtStop(cols, col) == IF col # <<>> THEN Append(cols, col) ELSE cols

\* kv.py:270-272: next() raises StopIteration
MakeColumnsStop ==
    /\ pc = "next"
    /\ next_cell > Len(sized_cells)
    /\ key_index > Len(folders)
    /\ columns' = ColumnsAtStop(columns, cell_column)
    /\ pc' = "done"
    /\ UNCHANGED <<config_vars, scan_vars, sized_cells, text_vars, app_vars,
                   next_cell, cell_column, column_capacity>>

\* kv.py:279, once list(make_columns(...)) has returned
SetNumColumns ==
    /\ pc = "done"
    /\ num_columns' = Len(columns)
    /\ pc' = "imported"
    /\ UNCHANGED <<config_vars, scan_vars, sized_cells, pack_vars, text_vars,
                   launch_vars, previous_scan>>

(***************************************************************************)
(* walk_project, kv.py:187-200.  The generators of kv.py:275-278 are lazy: *)
(* make_columns asks for the next Cell, and when the Cells of the keys     *)
(* handled so far are used up, walk_project handles its next key.  One     *)
(* action handles one key and passes what it yields through                *)
(* compute_heights.                                                        *)
(***************************************************************************)
WalkProjectReady ==
    /\ pc = "next"
    /\ next_cell > Len(sized_cells)
    /\ key_index <= Len(folders)

\* kv.py:193
LabelOf(key) == IF key = <<".">> THEN <<"r", "o", "o", "t">> ELSE key

Yield(key, cells) ==
    /\ emitted' = Append(emitted, [key |-> key, cells |-> cells])
    /\ unsized_cells' = unsized_cells \o cells
    /\ sized_cells' = sized_cells \o compute_heights(cells)
    /\ key_index' = key_index + 1

\* kv.py:190-192: the key does not exist
WalkProjectSkip ==
    /\ WalkProjectReady
    /\ ~Exists(PathOf(folders[key_index].key))
    /\ Yield(folders[key_index].key, <<>>)
    /\ UNCHANGED <<config_vars, pc, pack_vars, text_vars, app_vars>>

\* kv.py:194-197: the key has glob patterns
WalkProjectGlobs ==
    /\ WalkProjectReady
    /\ LET key == folders[key_index].key
           globs == folders[key_index].globs
       IN  /\ Exists(PathOf(key))
           /\ globs # <<>>
           /\ Yield(key, emit_from_globs(key, LabelOf(key), splitlines(globs)))
    /\ UNCHANGED <<config_vars, pc, pack_vars, text_vars, app_vars>>

\* kv.py:198-200: the key has no glob patterns
WalkProjectRecurse ==
    /\ WalkProjectReady
    /\ LET key == folders[key_index].key
       IN  /\ Exists(PathOf(key))
           /\ folders[key_index].globs = <<>>
           /\ is_dir(PathOf(key))
           /\ Yield(key, walk_one_folder(PathOf(key)))
    /\ UNCHANGED <<config_vars, pc, pack_vars, text_vars, app_vars>>

\* kv.py:149: the key has no glob patterns and is not a directory
WalkProjectNotADirectory ==
    /\ WalkProjectReady
    /\ LET key == folders[key_index].key
       IN  /\ Exists(PathOf(key))
           /\ folders[key_index].globs = <<>>
           /\ ~is_dir(PathOf(key))
    /\ pc' = "AssertionError"
    /\ UNCHANGED <<config_vars, scan_vars, sized_cells, pack_vars, text_vars, app_vars>>

(***************************************************************************)
(* Direct calls of the two pure text functions (as the test makes them,    *)
(* tests/test_kivy_startup.py:43-66).                                      *)
(***************************************************************************)
CallWrap ==
    /\ pc = "call"
    /\ result' = [op |-> "wrap", val |-> wrap(text)]
    /\ pc' = "returned"
    /\ UNCHANGED <<config_vars, scan_vars, sized_cells, pack_vars, text, app_vars>>

CallFilenameOk ==
    /\ pc = "call"
    /\ result' = [op |-> "filename_ok", val |-> filename_ok(text)]
    /\ pc' = "returned"
    /\ UNCHANGED <<config_vars, scan_vars, sized_cells, pack_vars, text, app_vars>>

(***************************************************************************)
(* Configuration values the specifications draw from.                      *)
(***************************************************************************)
ShortHeights == {1, 2}
TallHeights == {3, 9}
Spacings == {0, 1}
\* window_height - minimum_height
HeightMargins == {-1, 0, 1, 3, 6}
WrapWidths == {1, 2}
\* text_wrap_width of the default configuration and of the tests
DefaultWrapWidth == 22
\* the strings of 22, 23 and 24 digits the test wraps
TestDigits(n) ==
    [i \in 1..n |-> <<"0", "1", "2", "3", "4", "5", "6", "7", "8", "9">>[(i % 10) + 1]]
TestStrings == {TestDigits(n) : n \in {DefaultWrapWidth, DefaultWrapWidth + 1,
                                       DefaultWrapWidth + 2}}
TextAlphabet == {"a", ";", "&", "|", NL}
CellNames == <<"a", "b", "c", "d", "e", "x", "o", "r", "t">>

NoResult == [op |-> "none", val |-> <<>>]

\* previous_scan while no file has been deleted
NotDeleted == [deleted |-> FALSE, cells |-> <<>>]

\* A sized Cell as compute_heights makes it: a one-line title with the short
\* height or a two-line title with the tall height.  Position i gives the
\* Cell a title no other Cell of the sequence has.
SizedCell(i, tall) ==
    LET ch == CellNames[i]
    IN  Cell(IF tall THEN <<ch, NL, ch>> ELSE <<ch>>, << <<ch>> >>,
             IF tall THEN TALL_BUTTON ELSE SHORT_BUTTON)

(***************************************************************************)
(* The file systems and folder configurations Spec draws from.             *)
(***************************************************************************)
\* root entries: a (file, empty file or directory, with or without a/b),
\* b; (a disallowed name),
\* __c/a (an excluded directory with a file), d (file or directory) with
\* d/ab and the directory d/e<newline> holding d/e<newline>/b
NoEntry == [p \in {} |-> Dir]
EntryA == {NoEntry} \cup
    {<< <<"a">> >> :> e : e \in {File(0), File(1), Dir}} \cup
    {(<< <<"a">> >> :> Dir) @@ (<< <<"a">>, <<"b">> >> :> File(1))}
EntryB == {NoEntry, << <<"b", ";">> >> :> File(1)}
EntryC == {NoEntry,
           (<< <<"_", "_", "c">> >> :> Dir)
               @@ (<< <<"_", "_", "c">>, <<"a">> >> :> File(1))}
EntryDAB == {NoEntry} \cup
    {<< <<"d">>, <<"a", "b">> >> :> e : e \in {File(0), File(1)}}
EntryDE == {NoEntry} \cup
    {(<< <<"d">>, <<"e", NL>> >> :> Dir) @@ b :
        b \in {NoEntry} \cup
            {<< <<"d">>, <<"e", NL>>, <<"b">> >> :> e : e \in {File(0), File(1)}}}
EntryD == {NoEntry, << <<"d">> >> :> File(1)} \cup
    {(<< <<"d">> >> :> Dir) @@ ab @@ de : ab \in EntryDAB, de \in EntryDE}

FileSystems ==
    {a @@ b @@ c @@ d : a \in EntryA, b \in EntryB, c \in EntryC, d \in EntryD}

Folder(key, globs) == [key |-> key, globs |-> globs]

\* [filebuttons.folders] sections: "" is recurse mode, otherwise the value
\* holds one glob pattern per line
FolderConfigs ==
    { << Folder(<<".">>, <<>>) >>,
      << Folder(<<".">>, <<"*">>) >>,
      << Folder(<<".">>, <<"a", "*", NL, "*", "a", NL, "d">>) >>,
      << Folder(<<"x">>, <<>>), Folder(<<"d">>, <<>>) >>,
      << Folder(<<"d">>, <<"a", "*", NL, "x">>), Folder(<<".">>, <<>>) >>,
      << Folder(<<"_", "_", "c">>, <<>>) >> }

ScanWrapWidths == {1, 4}
ScanWindowHeights == {7, 12}

(***************************************************************************)
(* Spec: the import-time pipeline, kv.py:275-279.                          *)
(***************************************************************************)
Init ==
    /\ SHORT_BUTTON = 1
    /\ TALL_BUTTON = 3
    /\ SPACING = 1
    /\ TEXT_WRAP_WIDTH \in ScanWrapWidths
    /\ window_height \in ScanWindowHeights
    /\ folders \in FolderConfigs
    /\ fs \in FileSystems
    /\ pc = "make_columns"
    /\ key_index = 1
    /\ emitted = <<>>
    /\ unsized_cells = <<>>
    /\ sized_cells = <<>>
    /\ next_cell = 1
    /\ cell_column = <<>>
    /\ column_capacity = 0
    /\ columns = <<>>
    /\ text = <<>>
    /\ result = NoResult
    /\ num_columns = -1
    /\ program = None
    /\ executables = {}
    /\ ui = "not started"
    /\ clicked = <<>>
    /\ processes = <<>>
    /\ previous_scan = NotDeleted

Next ==
    \/ MakeColumnsStart
    \/ WalkProjectSkip
    \/ WalkProjectGlobs
    \/ WalkProjectRecurse
    \/ WalkProjectNotADirectory
    \/ MakeColumnsNext
    \/ MakeColumnsStop
    \/ SetNumColumns

Spec == Init /\ [][Next]_vars

(***************************************************************************)
(* SpecPack: make_columns on every sequence of at most MaxCells sized      *)
(* Cells.                                                                  *)
(***************************************************************************)
InitPack ==
    /\ SHORT_BUTTON \in ShortHeights
    /\ TALL_BUTTON \in TallHeights
    /\ SPACING \in Spacings
    /\ TEXT_WRAP_WIDTH = 2
    /\ \E m \in HeightMargins : window_height = minimum_height + m
    /\ folders = <<>>
    /\ fs = NoEntry
    /\ pc = "make_columns"
    /\ key_index = 1
    /\ emitted = <<>>
    /\ unsized_cells = <<>>
    /\ \E n \in 0..MaxCells : \E tall \in [1..n -> BOOLEAN] :
           sized_cells = [i \in 1..n |-> SizedCell(i, tall[i])]
    /\ next_cell = 1
    /\ cell_column = <<>>
    /\ column_capacity = 0
    /\ columns = <<>>
    /\ text = <<>>
    /\ result = NoResult
    /\ num_columns = -1
    /\ program = None
    /\ executables = {}
    /\ ui = "not started"
    /\ clicked = <<>>
    /\ processes = <<>>
    /\ previous_scan = NotDeleted

NextPack ==
    MakeColumnsStart \/ MakeColumnsNext \/ MakeColumnsStop \/ SetNumColumns

SpecPack == InitPack /\ [][NextPack]_vars

(***************************************************************************)
(* SpecText: wrap and filename_ok on every string of at most MaxLen        *)
(* characters.                                                             *)
(***************************************************************************)
InitText ==
    /\ SHORT_BUTTON = 1
    /\ TALL_BUTTON = 3
    /\ SPACING = 0
    /\ \/ TEXT_WRAP_WIDTH \in WrapWidths /\ text \in StringsUpTo(TextAlphabet, MaxLen)
       \/ TEXT_WRAP_WIDTH = DefaultWrapWidth /\ text \in TestStrings
    /\ window_height = 4
    /\ folders = <<>>
    /\ fs = NoEntry
    /\ pc = "call"
    /\ key_index = 1
    /\ emitted = <<>>
    /\ unsized_cells = <<>>
    /\ sized_cells = <<>>
    /\ next_cell = 1
    /\ cell_column = <<>>
    /\ column_capacity = 0
    /\ columns = <<>>
    /\ result = NoResult
    /\ num_columns = -1
    /\ program = None
    /\ executables = {}
    /\ ui = "not started"
    /\ clicked = <<>>
    /\ processes = <<>>
    /\ previous_scan = NotDeleted

NextText == CallWrap \/ CallFilenameOk

SpecText == InitText /\ [][NextText]_vars

(***************************************************************************)
(* Properties of make_columns (SpecPack).                                  *)
(***************************************************************************)
RECURSIVE Flatten(_)
Flatten(cols) ==
    IF cols = <<>> THEN <<>> ELSE Head(cols) \o Flatten(Tail(cols))

SpaceOf(cell) == cell.height + SPACING

RECURSIVE ColumnSpace(_)
ColumnSpace(col) ==
    IF col = <<>> THEN 0 ELSE SpaceOf(Head(col)) + ColumnSpace(Tail(col))

\* what the k-th yielded column may hold
CapacityOf(k) ==
    IF k = 1 THEN window_height - minimum_height ELSE window_height

\* C1: the columns yielded, concatenated in the order yielded, are exactly
\* the input sequence: once make_columns has finished, and (with the column
\* being filled) for the Cells consumed so far while it runs.
C1_ColumnsConcatenateToInput ==
    /\ pc = "done" => Flatten(columns) = sized_cells
    /\ pc = "next" =>
           Flatten(columns) \o cell_column = SubSeq(sized_cells, 1, next_cell - 1)

C1_Witness ==
    /\ pc = "done"
    /\ Len(sized_cells) >= 3
    /\ Len(columns) >= 2
    /\ \E k \in 1..Len(columns) : Len(columns[k]) >= 2

\* C2 as claimed: the first yielded column holds at most
\* window_height - 4*(SHORT_BUTTON+SPACING), every later one at most
\* window_height.
C2_EveryColumnWithinCapacity ==
    \A k \in 1..Len(columns) : ColumnSpace(columns[k]) <= CapacityOf(k)

\* C2 amended: every yielded column is within its capacity, except a later
\* column made of a single Cell whose height + SPACING exceeds window_height.
C2_ColumnWithinCapacityOrSingleOversized ==
    \A k \in 1..Len(columns) :
        \/ ColumnSpace(columns[k]) <= CapacityOf(k)
        \/ /\ k > 1
           /\ Len(columns[k]) = 1
           /\ SpaceOf(columns[k][1]) > window_height

C2_Witness ==
    /\ pc = "done"
    /\ \E k \in 2..Len(columns) :
           Len(columns[k]) = 1 /\ SpaceOf(columns[k][1]) > window_height
    /\ \E k \in 2..Len(columns) :
           Len(columns[k]) >= 2 /\ ColumnSpace(columns[k]) <= window_height
    /\ Len(columns[1]) >= 1

\* C3: a column is closed only when the next Cell does not fit: for two
\* consecutive yielded columns the earlier one's space plus the space of the
\* later one's first Cell exceeds the earlier one's capacity; and a
\* non-empty input whose whole space fits the first column is yielded as
\* exactly one column holding every Cell.
C3_Greedy ==
    /\ \A k \in 1..(Len(columns) - 1) :
           /\ columns[k + 1] # <<>>
           /\ ColumnSpace(columns[k]) + SpaceOf(columns[k + 1][1]) > CapacityOf(k)
    /\ (/\ pc = "done"
        /\ sized_cells # <<>>
        /\ ColumnSpace(sized_cells) <= window_height - minimum_height)
           => columns = <<sized_cells>>

C3_Witness ==
    /\ pc = "done"
    /\ Len(columns) >= 3
    /\ Len(columns[1]) >= 1
    /\ Len(columns[2]) >= 2

(***************************************************************************)
(* Properties of filename_ok and wrap (SpecText).                          *)
(***************************************************************************)
\* C4: filename_ok(s) is False exactly when s has a ';', a newline, two
\* adjacent '&' or two adjacent '|'; a single '&' or '|' is accepted.
C4_FilenameOkIffNoDisallowedSubstring ==
    result.op = "filename_ok" =>
        (result.val = FALSE <=>
            \E i \in 1..Len(text) :
                \/ text[i] = ";"
                \/ text[i] = NL
                \/ i < Len(text) /\ text[i] = "&" /\ text[i + 1] = "&"
                \/ i < Len(text) /\ text[i] = "|" /\ text[i + 1] = "|")

C4_Witness ==
    /\ result.op = "filename_ok"
    /\ result.val = TRUE
    /\ \E i, j \in 1..Len(text) : text[i] = "&" /\ text[j] = "|"

\* C5: wrap(s) is s when len(s) <= TEXT_WRAP_WIDTH; otherwise it is s with
\* one newline inserted after the first ceil(len(s)/2) characters and
\* nothing else added, removed or moved.
C5_WrapInsertsOneNewlineAtMidpoint ==
    result.op = "wrap" =>
        LET n == Len(text)
            h == (n + 1) \div 2
            w == result.val
        IN  IF n <= TEXT_WRAP_WIDTH
            THEN w = text
            ELSE /\ Len(w) = n + 1
                 /\ w[h + 1] = NL
                 /\ \A i \in 1..n : w[IF i <= h THEN i ELSE i + 1] = text[i]

C5_Witness ==
    /\ result.op = "wrap"
    /\ Len(text) > TEXT_WRAP_WIDTH
    /\ Len(text) % 2 = 1
    /\ Len(result.val) = Len(text) + 1

(***************************************************************************)
(* Properties of the scan and of compute_heights (Spec).                   *)
(***************************************************************************)
Lines(s) == CountNL(s) + 1

\* the text compute_heights wraps for an unsized Cell
TextOf(cell) == IF cell.target = None THEN cell.title ELSE Name(cell.target)

\* C6 as claimed: every sized Cell has a title of one or two lines, the
\* short height exactly for one line and the tall height exactly for two,
\* and the target of the unsized Cell it was made from.
C6_TitleHasOneOrTwoLines ==
    \A i \in 1..Len(sized_cells) :
        LET c == sized_cells[i]
        IN  /\ Lines(c.title) \in {1, 2}
            /\ c.height = SHORT_BUTTON <=> Lines(c.title) = 1
            /\ c.height = TALL_BUTTON <=> Lines(c.title) = 2
            /\ c.target = unsized_cells[i].target

\* C6 amended: compute_heights adds at most one line to the text it wraps,
\* so a text without a newline (every file Cell, and every label whose
\* folder path has none) gives a title of one or two lines; the height is
\* short exactly for one line and tall exactly for two or more; the target
\* is the unsized Cell's.
C6_AtMostOneLineAdded ==
    /\ Len(sized_cells) = Len(unsized_cells)
    /\ \A i \in 1..Len(sized_cells) :
           LET c == sized_cells[i]
               u == unsized_cells[i]
           IN  /\ Lines(c.title) - Lines(TextOf(u)) \in {0, 1}
               /\ Lines(TextOf(u)) = 1 => Lines(c.title) \in {1, 2}
               /\ u.target # None => Lines(c.title) \in {1, 2}
               /\ c.height = SHORT_BUTTON <=> Lines(c.title) = 1
               /\ c.height = TALL_BUTTON <=> Lines(c.title) >= 2
               /\ c.target = u.target

C6_Witness ==
    /\ \E i \in 1..Len(sized_cells) :
           /\ sized_cells[i].target # None
           /\ Lines(sized_cells[i].title) = 2
           /\ sized_cells[i].height = TALL_BUTTON
    /\ \E i \in 1..Len(sized_cells) :
           /\ sized_cells[i].target = None
           /\ Lines(sized_cells[i].title) = 3
    /\ \E i \in 1..Len(sized_cells) : sized_cells[i].height = SHORT_BUTTON

\* the keys walk_project has handled in glob mode / in recurse mode
GlobKeys ==
    {k \in 1..Len(emitted) :
        folders[k].globs # <<>> /\ Exists(PathOf(folders[k].key))}

RecurseKeys ==
    {k \in 1..Len(emitted) :
        folders[k].globs = <<>> /\ Exists(PathOf(folders[k].key))}

\* the entries of the key's folder that match one of its patterns
Matching(k) ==
    {p \in DOMAIN fs :
        /\ Len(p) = Len(PathOf(folders[k].key)) + 1
        /\ SubSeq(p, 1, Len(p) - 1) = PathOf(folders[k].key)
        /\ \E g \in 1..Len(splitlines(folders[k].globs)) :
               Match(splitlines(folders[k].globs)[g], Name(p))}

\* cells is one label, then exactly one file Cell per path of expected, in
\* non-decreasing order of name
LabelThenOneCellPerPath(cells, expected) ==
    /\ cells # <<>>
    /\ cells[1].target = None
    /\ Len(cells) = 1 + Cardinality(expected)
    /\ {cells[i].target : i \in 2..Len(cells)} = expected
    /\ \A i \in 2..Len(cells) : cells[i].title = Name(cells[i].target)
    /\ \A i, j \in 2..Len(cells) :
           i < j => ~StrLess(cells[j].title, cells[i].title)

\* C7 as claimed: in glob mode the folder's output is its label, then one
\* file Cell per distinct matching file that is not empty and has an
\* allowed name, in non-decreasing order of name.
C7_GlobCellsAreNonEmptyFiles ==
    \A k \in GlobKeys :
        LabelThenOneCellPerPath(emitted[k].cells,
            {p \in Matching(k) :
                /\ fs[p].kind = "file"
                /\ fs[p].size > 0
                /\ filename_ok(Name(p))})

\* C7 amended: in glob mode the folder's output is its label, then one file
\* Cell per distinct matching path with an allowed name, whatever its size
\* and whether it is a file or a directory, in non-decreasing order of name.
C7_GlobCellsAreMatchingPaths ==
    \A k \in GlobKeys :
        LabelThenOneCellPerPath(emitted[k].cells,
            {p \in Matching(k) : filename_ok(Name(p))})

C7_Witness ==
    \E k \in GlobKeys :
        /\ Len(emitted[k].cells) >= 3
        /\ \E i \in 2..Len(emitted[k].cells) :
               LET p == emitted[k].cells[i].target
               IN  fs[p].kind = "file" /\ fs[p].size = 0
        /\ \E p \in Matching(k) : ~filename_ok(Name(p))

\* C8: every existing key with glob patterns gets exactly one label Cell,
\* titled "root" for the key "." and with the key otherwise, before its
\* file Cells, also when nothing matches.
C8_GlobFolderHasOneLabel ==
    /\ Len(emitted) = key_index - 1
    /\ \A k \in GlobKeys :
           LET cells == emitted[k].cells
           IN  /\ cells # <<>>
               /\ cells[1].target = None
               /\ cells[1].title = IF folders[k].key = <<".">>
                                   THEN <<"r", "o", "o", "t">>
                                   ELSE folders[k].key
               /\ \A i \in 2..Len(cells) : cells[i].target # None

C8_Witness ==
    \E k \in GlobKeys :
        /\ Len(emitted[k].cells) = 1
        /\ emitted[k].cells[1].title = <<"d">>
        /\ Matching(k) = {}

Directories == {<<>>} \cup {p \in DOMAIN fs : fs[p].kind = "dir"}

\* the label Cells among cells that name folder
LabelsOf(cells, folder) ==
    {i \in 1..Len(cells) :
        cells[i].target = None /\ cells[i].title = as_posix(folder)}

\* path lies in or below a subfolder of root whose name starts with "__"
BelowExcluded(root, path, last) ==
    \E j \in (Len(root) + 1)..last : StartsWith(path[j], <<"_", "_">>)

\* C9: in recurse mode a folder is labelled at most once, a folder without
\* a non-empty file of its own is not labelled, and nothing comes from a
\* subfolder whose name starts with "__" or from below it.
C9_RecurseLabels ==
    \A k \in RecurseKeys :
        LET cells == emitted[k].cells
            root == PathOf(folders[k].key)
        IN  /\ \A folder \in Directories :
                   /\ Cardinality(LabelsOf(cells, folder)) <= 1
                   /\ (\A p \in iterdir(folder) :
                           fs[p].kind = "dir" \/ fs[p].size = 0)
                          => LabelsOf(cells, folder) = {}
                   /\ BelowExcluded(root, folder, Len(folder))
                          => LabelsOf(cells, folder) = {}
            /\ \A i \in 1..Len(cells) :
                   cells[i].target # None =>
                       ~BelowExcluded(root, cells[i].target,
                                      Len(cells[i].target) - 1)

C9_Witness ==
    \E k \in RecurseKeys :
        /\ folders[k].key = <<".">>
        /\ << <<"_", "_", "c">>, <<"a">> >> \in DOMAIN fs
        /\ << <<"d">>, <<"a", "b">> >> \in DOMAIN fs
        /\ fs[<< <<"d">>, <<"a", "b">> >>].size = 0
        /\ LabelsOf(emitted[k].cells, << <<"d">> >>) = {}
        /\ LabelsOf(emitted[k].cells, << <<"d">>, <<"e", NL>> >>) # {}
        /\ LabelsOf(emitted[k].cells, <<>>) # {}

\* C10 as claimed: in both modes every Cell with a target names an existing
\* regular file, and every Cell has height 0.
C10_TargetsAreRegularFiles ==
    \A i \in 1..Len(unsized_cells) :
        LET c == unsized_cells[i]
        IN  /\ c.height = 0
            /\ c.target # None =>
                   c.target \in DOMAIN fs /\ fs[c.target].kind = "file"

\* C10 amended: every Cell has height 0; a Cell without target is a label
\* (the first Cell of a glob-mode key, or one titled with the path of a
\* directory in recurse mode); in recurse mode a target is an existing,
\* non-empty regular file; in glob mode a target is an existing entry of
\* the folder, a regular file or a directory.
C10_TargetsExist ==
    /\ unsized_cells = Flatten([k \in 1..Len(emitted) |-> emitted[k].cells])
    /\ \A k \in RecurseKeys : \A i \in 1..Len(emitted[k].cells) :
           LET c == emitted[k].cells[i]
           IN  /\ c.height = 0
               /\ c.target = None =>
                      \E folder \in Directories : c.title = as_posix(folder)
               /\ c.target # None =>
                      /\ c.target \in DOMAIN fs
                      /\ fs[c.target].kind = "file"
                      /\ fs[c.target].size > 0
    /\ \A k \in GlobKeys : \A i \in 1..Len(emitted[k].cells) :
           LET c == emitted[k].cells[i]
           IN  /\ c.height = 0
               /\ c.target = None <=> i = 1
               /\ c.target # None =>
                      /\ c.target \in DOMAIN fs
                      /\ fs[c.target].kind \in {"file", "dir"}
                      /\ SubSeq(c.target, 1, Len(c.target) - 1)
                             = PathOf(folders[k].key)

C10_Witness ==
    \E k \in GlobKeys :
        /\ \E i \in 2..Len(emitted[k].cells) :
               fs[emitted[k].cells[i].target].kind = "dir"
        /\ \E i \in 2..Len(emitted[k].cells) :
               fs[emitted[k].cells[i].target].kind = "file"

(***************************************************************************)
(* Rejected file names (SpecRejected).  To compare a scan with the scan of *)
(* the same tree without the rejected files, the files with a disallowed   *)
(* name are deleted before the import-time code starts; previous_scan      *)
(* keeps the file Cells walk_project yields for the tree as it was.        *)
(***************************************************************************)
\* the claim's wording of a disallowed name, character by character
HasDisallowed(name) ==
    \E i \in 1..Len(name) :
        \/ name[i] = ";"
        \/ name[i] = NL
        \/ i < Len(name) /\ name[i] = "&" /\ name[i + 1] = "&"
        \/ i < Len(name) /\ name[i] = "|" /\ name[i + 1] = "|"

RejectedFiles ==
    {p \in DOMAIN fs : fs[p].kind = "file" /\ HasDisallowed(Name(p))}

\* what walk_project yields for its k-th key (nothing when walk_one_folder's
\* assert stops it)
KeyCells(k) ==
    LET key == folders[k].key
    IN  IF ~Exists(PathOf(key)) THEN <<>>
        ELSE IF folders[k].globs # <<>>
             THEN emit_from_globs(key, LabelOf(key), splitlines(folders[k].globs))
        ELSE IF is_dir(PathOf(key)) THEN walk_one_folder(PathOf(key))
        ELSE <<>>

IsFileCell(cell) == cell.target # None

\* the file Cells of a sequence of Cells, in order
FileCellsIn(cells) == SelectSeq(cells, IsFileCell)

DeleteRejectedFiles ==
    /\ pc = "make_columns"
    /\ RejectedFiles # {}
    /\ previous_scan' =
           [deleted |-> TRUE,
            cells |-> FileCellsIn(Flatten([k \in 1..Len(folders) |-> KeyCells(k)]))]
    /\ fs' = [p \in DOMAIN fs \ RejectedFiles |-> fs[p]]
    /\ UNCHANGED <<SHORT_BUTTON, TALL_BUTTON, SPACING, TEXT_WRAP_WIDTH,
                   window_height, folders, pc, scan_vars, sized_cells,
                   pack_vars, text_vars, num_columns, launch_vars>>

NextRejected == Next \/ DeleteRejectedFiles

SpecRejected == Init /\ [][NextRejected]_vars

\* walk_project has handled every key without an assertion failure
ScanComplete ==
    /\ key_index > Len(folders)
    /\ pc # "AssertionError"

\* C11: a file with a disallowed name gets no Cell: no Cell with a target
\* whose name has ';', '&&', '||' or a newline is yielded by the scan or
\* placed in a column; the scan goes on to the other files and keys (every
\* key handled yields what KeyCells says for the tree scanned); and the file
\* Cells of a complete scan made after the rejected files were deleted are
\* the file Cells the scan of the tree with them yields.
C11_RejectedFilesLeaveNoTrace ==
    /\ \A i \in 1..Len(sized_cells) :
           IsFileCell(sized_cells[i]) =>
               ~HasDisallowed(Name(sized_cells[i].target))
    /\ \A k \in 1..Len(columns) : \A i \in 1..Len(columns[k]) :
           IsFileCell(columns[k][i]) =>
               ~HasDisallowed(Name(columns[k][i].target))
    /\ \A k \in 1..Len(emitted) : emitted[k].cells = KeyCells(k)
    /\ (previous_scan.deleted /\ ScanComplete) =>
           FileCellsIn(unsized_cells) = previous_scan.cells

C11_Witness ==
    /\ pc = "done"
    /\ previous_scan.deleted
    /\ Len(previous_scan.cells) >= 2
    /\ \E k \in 1..Len(emitted) : folders[k].globs = <<>> /\ emitted[k].cells # <<>>
    /\ \E k \in 1..Len(columns) : \E i \in 1..Len(columns[k]) :
           IsFileCell(columns[k][i])

(***************************************************************************)
(* The assertion of make_columns and empty columns (SpecPack).             *)
(***************************************************************************)
\* C12: make_columns fails its assertion exactly when window_height is
\* below 4*(SHORT_BUTTON+SPACING), and then before it has taken a Cell or
\* yielded a column, so num_columns is never bound and no UI is started;
\* with a window_height at or above that it goes on, whatever the Cells,
\* until the columns are yielded and num_columns is bound.
C12_AssertionIffWindowTooLow ==
    /\ pc # "make_columns" =>
           (pc = "AssertionError"
                <=> window_height < 4 * (SHORT_BUTTON + SPACING))
    /\ pc = "AssertionError" =>
           /\ columns = <<>>
           /\ next_cell = 1
           /\ num_columns = -1
           /\ ui = "not started"
    /\ window_height >= 4 * (SHORT_BUTTON + SPACING) =>
           /\ pc \in {"make_columns", "next", "done", "imported"}
           /\ pc # "imported" => ENABLED NextPack
           /\ pc = "imported" => num_columns = Len(columns)

C12_Witness ==
    /\ pc = "AssertionError"
    /\ Len(sized_cells) >= 2
    /\ window_height = 4 * (SHORT_BUTTON + SPACING) - 1

\* C18 as claimed: every yielded column holds at least one Cell, and an
\* empty input yields no column (num_columns = 0).
C18_NoEmptyColumn ==
    /\ \A k \in 1..Len(columns) : columns[k] # <<>>
    /\ (pc = "imported" /\ sized_cells = <<>>) => num_columns = 0

\* C18 amended: every yielded column after the first holds at least one
\* Cell; the first yielded column is empty exactly when the first Cell of
\* the input does not fit the room left below the four reserved buttons;
\* an empty input yields no column (num_columns = 0).
C18_OnlyFirstColumnMayBeEmpty ==
    /\ \A k \in 2..Len(columns) : columns[k] # <<>>
    /\ (columns # <<>> /\ sized_cells # <<>>) =>
           (columns[1] = <<>>
                <=> sized_cells[1].height + SPACING
                        > window_height - 4 * (SHORT_BUTTON + SPACING))
    /\ sized_cells = <<>> => columns = <<>>
    /\ pc = "imported" => num_columns = Len(columns)

C18_Witness ==
    /\ pc = "imported"
    /\ num_columns >= 3
    /\ columns[1] = <<>>
    /\ Len(columns[2]) >= 2


(***************************************************************************)
(* C14: the order of the Cells of a recursed folder tree.                  *)
(***************************************************************************)
\* the folder a Cell of a recurse-mode scan belongs to: the parent of a
\* file Cell's target, the folder a label Cell names
FolderOfCell(cell) ==
    IF cell.target # None
    THEN SubSeq(cell.target, 1, Len(cell.target) - 1)
    ELSE CHOOSE folder \in Directories : as_posix(folder) = cell.title

IsPrefix(p, q) == Len(p) <= Len(q) /\ SubSeq(q, 1, Len(p)) = p

\* the first position where two folders, neither a prefix of the other,
\* part ways
Fork(p, q) == CHOOSE m \in 1..Len(p) : p[m] # q[m] /\ \A n \in 1..(m - 1) : p[n] = q[n]

\* C14: in recurse mode the Cells come out depth first, files before
\* subfolders: within a folder the label comes first and the file Cells
\* follow in non-decreasing name order; no Cell of a folder comes after a
\* Cell from below that folder; and where two Cells lie in different
\* subtrees of a common folder, all Cells of the subfolder with the smaller
\* name come before all Cells of the subfolder with the larger name.
C14_DepthFirstFilesBeforeSubfolders ==
    \A k \in RecurseKeys :
        LET cells == emitted[k].cells
        IN  \A i, j \in 1..Len(cells) :
                i < j =>
                    LET fi == FolderOfCell(cells[i])
                        fj == FolderOfCell(cells[j])
                    IN  /\ fi = fj =>
                               /\ cells[j].target # None
                               /\ cells[i].target # None =>
                                      ~StrLess(cells[j].title, cells[i].title)
                        /\ fi # fj => ~IsPrefix(fj, fi)
                        /\ (~IsPrefix(fi, fj) /\ ~IsPrefix(fj, fi)) =>
                               StrLess(fi[Fork(fi, fj)], fj[Fork(fi, fj)])

\* a finished scan of "." in recurse mode with the label of the root, two
\* sibling subfolders with files and a subfolder below the second
C14_Witness ==
    /\ pc = "imported"
    /\ \E k \in RecurseKeys :
           LET cells == emitted[k].cells
           IN  /\ \E i \in 1..Len(cells) : cells[i].title = as_posix(<<>>)
               /\ \E i, j, l \in 1..Len(cells) :
                      /\ i < j /\ j < l
                      /\ cells[i].target = << <<"a">>, <<"b">> >>
                      /\ cells[j].target = << <<"d">>, <<"a", "b">> >>
                      /\ cells[l].target = << <<"d">>, <<"e", NL>>, <<"b">> >>


(***************************************************************************)
(* The running App: build, MyFileButton.mycallback and run_program,        *)
(* kv.py:481-495, 534-544, 586-660.                                        *)
(***************************************************************************)
MaxClicks == 2

Code == <<"c", "o", "d", "e">>
Shell == <<"s", "h">>

\* shutil.which(program): the path of the executable, None when the search
\* path has none of that name
which(name) ==
    IF name \in executables THEN <<"/", "b", "i", "n", "/">> \o name ELSE None

\* the argument list without the file
args_list_without_filename(executable_path, filename) == <<executable_path>>

\* kv.py:541
args_list(executable_path, filename) == <<executable_path, filename>>

\* subprocess.Popen(args_list, shell=False): the child has been started
Popen(args, shell) == [args |-> args, shell |-> shell, returncode |-> None]

\* the targets of the MyFileButtons build() makes, kv.py:633-647: one for
\* every Cell of columns that has a target
FileButtons ==
    UNION {{columns[c][i].target :
               i \in {n \in 1..Len(columns[c]) : columns[c][n].target # None}} :
           c \in 1..Len(columns)}

\* App.run() -> build(): the window is up and waits for events
AppBuild ==
    /\ pc = "imported"
    /\ ui = "not started"
    /\ ui' = "idle"
    /\ UNCHANGED <<config_vars, pc, scan_vars, sized_cells, pack_vars,
                   text_vars, num_columns, program, executables, clicked,
                   processes, previous_scan>>

\* on_release of a file button: mycallback calls run_program, which runs up
\* to its return at kv.py:540, to the KeyError of kv.py:536 that nothing
\* catches, or into subprocess.run at kv.py:543 with the child started
mycallback ==
    /\ ui = "idle"
    /\ Len(clicked) < MaxClicks
    /\ \E mytarget \in FileButtons :
           LET filename == as_posix(mytarget)
               executable_path == which(program)
           IN  /\ clicked' = Append(clicked, filename)
               /\ IF program = None
                  THEN ui' = "KeyError" /\ UNCHANGED processes
                  ELSE IF executable_path = None
                  THEN ui' = "idle" /\ UNCHANGED processes
                  ELSE /\ processes' = Append(processes,
                              Popen(args_list(executable_path, filename), FALSE))
                       /\ ui' = "subprocess.run"
    /\ UNCHANGED <<config_vars, pc, scan_vars, sized_cells, pack_vars,
                   text_vars, num_columns, program, executables,
                   previous_scan>>

\* the child process ends with some return code, held as a one-element
\* sequence so that it compares with None
ChildExits ==
    /\ \E i \in 1..Len(processes) : \E returncode \in {<<0>>, <<1>>} :
           /\ processes[i].returncode = None
           /\ processes' = [processes EXCEPT ![i].returncode = returncode]
    /\ UNCHANGED <<config_vars, pc, scan_vars, sized_cells, pack_vars,
                   text_vars, num_columns, program, executables, ui, clicked,
                   previous_scan>>

\* a call that does not wait for the child
returns_at_once(process) == TRUE

\* subprocess.run waits for the child (Popen.communicate) before it returns
\* the CompletedProcess
communicate(process) == process.returncode # None

\* kv.py:543-544: subprocess.run returns, run_program prints the return code,
\* mycallback returns to the event loop
SubprocessRunReturns ==
    /\ ui = "subprocess.run"
    /\ communicate(processes[Len(processes)])
    /\ ui' = "idle"
    /\ UNCHANGED <<config_vars, pc, scan_vars, sized_cells, pack_vars,
                   text_vars, num_columns, program, executables, clicked,
                   processes, previous_scan>>


\* the settings files SpecApp starts from: a program key or none, the name
\* on the search path or not
ReadmeMd == <<"R", "E", "A", "D", "M", "E", ".", "m", "d">>

AppFileSystems ==
    {a @@ b @@ d :
        a \in {<< <<"a">> >> :> File(1)},
        b \in EntryB,
        d \in {<< <<"d">> >> :> File(1),
               (<< <<"d">> >> :> Dir)
                   @@ (<< <<"d">>, <<"a", "b">> >> :> File(1))
                   @@ (<< <<"d">>, <<"e", NL>> >> :> Dir)
                   @@ (<< <<"d">>, <<"e", NL>>, <<"b">> >> :> File(1))}}

AppFolderConfigs ==
    { << Folder(<<"x">>, <<>>), Folder(<<"d">>, <<>>) >>,
      << Folder(<<"d">>, <<"a", "*", NL, "x">>), Folder(<<".">>, <<>>) >> }

SearchPaths == {{}, {Code, Shell}}

\* kv.py:96: the settings file exists and has been read
InitFromSettingsFile ==
    /\ SHORT_BUTTON = 1
    /\ TALL_BUTTON = 3
    /\ SPACING = 1
    /\ TEXT_WRAP_WIDTH = 4
    /\ window_height = 12
    /\ folders \in AppFolderConfigs
    /\ fs \in AppFileSystems
    /\ program \in {None, Code, Shell}

\* kv.py:98-114: no settings file, the configuration made in memory
InitInMemoryDefaults ==
    /\ SHORT_BUTTON = 18
    /\ TALL_BUTTON = 33
    /\ SPACING = 3
    /\ TEXT_WRAP_WIDTH = DefaultWrapWidth
    /\ window_height = 600
    /\ folders = << Folder(<<".">>, ReadmeMd) >>
    /\ fs \in {NoEntry, <<ReadmeMd>> :> File(1)}
    /\ program = None

InitApp ==
    /\ InitFromSettingsFile \/ InitInMemoryDefaults
    /\ executables \in SearchPaths
    /\ pc = "make_columns"
    /\ key_index = 1
    /\ emitted = <<>>
    /\ unsized_cells = <<>>
    /\ sized_cells = <<>>
    /\ next_cell = 1
    /\ cell_column = <<>>
    /\ column_capacity = 0
    /\ columns = <<>>
    /\ text = <<>>
    /\ result = NoResult
    /\ num_columns = -1
    /\ ui = "not started"
    /\ clicked = <<>>
    /\ processes = <<>>
    /\ previous_scan = NotDeleted

NextApp ==
    Next \/ AppBuild \/ mycallback \/ ChildExits \/ SubprocessRunReturns

SpecApp == InitApp /\ [][NextApp]_vars


(***************************************************************************)
(* The launcher's properties, checked in SpecApp.                          *)
(***************************************************************************)
IsRunning(process) == process.returncode = None

\* C13: with a program name in the configuration, run_program raises
\* nothing; when the name does not resolve no process is ever spawned and
\* the call returns; when it resolves every call has spawned exactly one
\* process, in call order, with the argument list [resolved executable,
\* filename] and without a shell, so no launch is retried.
C13_OneSpawnPerCallOrNone ==
    program # None =>
        /\ ui # "KeyError"
        /\ which(program) = None =>
               /\ processes = <<>>
               /\ ui \in {"not started", "idle"}
        /\ which(program) # None =>
               /\ Len(processes) = Len(clicked)
               /\ \A i \in 1..Len(processes) :
                      /\ processes[i].args = <<which(program), clicked[i]>>
                      /\ processes[i].shell = FALSE
                      /\ Len(processes[i].args) = 2

\* two clicks on different buttons with a program that resolves, both
\* children spawned and the second call back in the event loop
C13_Witness ==
    /\ program # None
    /\ which(program) # None
    /\ Len(clicked) = 2
    /\ clicked[1] # clicked[2]
    /\ Len(processes) = 2
    /\ ui = "idle"

\* C15 as claimed: while a launched child is still running the handler has
\* returned, so the next button activation can be handled.
C15_NextActivationWhileChildRuns ==
    (Len(clicked) < MaxClicks /\ \E i \in 1..Len(processes) : IsRunning(processes[i]))
        => ENABLED mycallback

\* C15: a file-button activation blocks the UI thread until the child has
\* exited: while a child runs the thread is inside subprocess.run and no
\* activation can be handled; the thread is back in the event loop only
\* when every child spawned so far has ended.
C15_HandlerBlocksUntilChildExits ==
    /\ \A i \in 1..Len(processes) :
           IsRunning(processes[i]) =>
               /\ i = Len(processes)
               /\ ui = "subprocess.run"
               /\ ~ENABLED mycallback
    /\ ui = "idle" => \A i \in 1..Len(processes) : ~IsRunning(processes[i])

\* the child of the first click is running, a further click is within the
\* bound, and the UI thread is inside subprocess.run
C15_Witness ==
    /\ Len(processes) = 1
    /\ IsRunning(processes[1])
    /\ Len(clicked) < MaxClicks
    /\ ui = "subprocess.run"

\* C16 as claimed: whatever the startup configuration, no click ends in an
\* unhandled error: each call of run_program has either spawned one process
\* or returned without one.
C16_ClickNeverEndsInUnhandledError ==
    /\ ui # "KeyError"
    /\ Len(processes) <= Len(clicked)

\* C17 as claimed: no filename handed to run_program, and so no argument of
\* a spawned process, contains ";", "&&", "||" or a newline.
C17_NoDisallowedSubstringInFilename ==
    /\ \A i \in 1..Len(clicked) : ~HasDisallowed(clicked[i])
    /\ \A i \in 1..Len(processes) : ~HasDisallowed(processes[i].args[2])

====
